---- MODULE Spec2Model ----
(***************************************************************************)
(* A model of the generalized tic-tac-toe game in src/index.js: the game   *)
(* state held in the script's globals, the three event handlers (initGame, *)
(* handleCellClick, the makeAIMove timer callback), win detection and the  *)
(* minimax / heuristic move selection.                                     *)
(***************************************************************************)
EXTENDS Integers, Sequences, FiniteSets, TLC

VARIABLES boardSize, gameMode, currentPlayer, gameBoard, gameActive,
          winLength, status, timers

vars == <<boardSize, gameMode, currentPlayer, gameBoard, gameActive,
          winLength, status, timers>>

\* ---------------------------------------------------------------- bounds
\* Pending setTimeout(makeAIMove) callbacks the model lets accumulate.
MaxTimers == 1
\* On a board searched by minimax the first mark of a session goes on one of
\* the first MaxOpenings cells (row-major); later clicks may be on any cell.
MaxOpenings == 1
\* On a larger board the clicks are on the first MaxLargeCells cells.
MaxLargeCells == 5
\* Marks on the 4x4 boards given to the win detectors.
MaxMarks == 4
\* Marks on the boards given to the heuristic selector.
MaxHeuristicMarks == 7
\* Rows that hold the marks of the 3x3 and 4x4 boards given to the search.
MaxMarkedRows == 2
\* Empty cells of the boards given to the search.
MaxSearchCells == 7

\* ------------------------------------------------------------- constants
aiPlayer == "O"
Infinity == 1000000
NULL == "null"
Marks == {"X", "O"}
\* option values of the two <select> elements
SizeOptions == {3, 6, 7}
ModeOptions == {"human", "ai"}

Max(a, b) == IF a >= b THEN a ELSE b
Min(a, b) == IF a <= b THEN a ELSE b

Idx == 0 .. (boardSize - 1)
Cells == Idx \X Idx

\* Array(n).fill().map(() => Array(n).fill(''))
EmptyBoard(n) == [i \in 0 .. (n - 1) |-> [j \in 0 .. (n - 1) |-> ""]]

\* board[row][col] = mark
SetCell(board, row, col, mark) ==
    [board EXCEPT ![row] = [@ EXCEPT ![col] = mark]]

MarkCount(board) ==
    Cardinality({c \in Cells : board[c[1]][c[2]] # ""})

\* ------------------------------------------------------- win detection
InBounds(r, c) == r >= 0 /\ r < boardSize /\ c >= 0 /\ c < boardSize

NoWinner == [winner |-> NULL, cells |-> <<>>]

\* checkSequence of checkWinner: NoWinner, or the winner with its cells
checkSequence(board, r, c, dr, dc) ==
    LET first == board[r][c] IN
    IF first = "" THEN NoWinner
    ELSE IF \A k \in 1 .. (winLength - 1) :
                LET rr == r + dr * k
                    cc == c + dc * k
                IN /\ ~(rr < 0 \/ rr >= boardSize \/ cc < 0 \/ cc >= boardSize)
                   /\ board[rr][cc] = first
         THEN [winner |-> first,
               cells |-> [k \in 1 .. winLength |->
                             <<r + dr * (k - 1), c + dc * (k - 1)>>]]
         ELSE NoWinner

\* One loop nest of checkWinner: for i = i0 .. iMax, for j = jMin .. jMax,
\* the first checkSequence(i, j, dr, dc) that is a run.
RECURSIVE InnerLoop(_, _, _, _, _, _)
InnerLoop(board, i, j, jMax, dr, dc) ==
    IF j > jMax THEN NoWinner
    ELSE LET res == checkSequence(board, i, j, dr, dc)
         IN IF res.winner # NULL THEN res
            ELSE InnerLoop(board, i, j + 1, jMax, dr, dc)

RECURSIVE LoopNest(_, _, _, _, _, _, _)
LoopNest(board, i, iMax, jMin, jMax, dr, dc) ==
    IF i > iMax THEN NoWinner
    ELSE LET res == InnerLoop(board, i, jMin, jMax, dr, dc)
         IN IF res.winner # NULL THEN res
            ELSE LoopNest(board, i + 1, iMax, jMin, jMax, dr, dc)

\* checkWinner with the last loop nest starting one column late
checkWinnerResLateColumn(board) ==
    LET rows == LoopNest(board, 0, boardSize - 1, 0, boardSize - winLength, 0, 1)
    IN IF rows.winner # NULL THEN rows
    ELSE LET columns == LoopNest(board, 0, boardSize - winLength,
                                 0, boardSize - 1, 1, 0)
    IN IF columns.winner # NULL THEN columns
    ELSE LET diagonals == LoopNest(board, 0, boardSize - winLength,
                                   0, boardSize - winLength, 1, 1)
    IN IF diagonals.winner # NULL THEN diagonals
    ELSE LoopNest(board, 0, boardSize - winLength,
                  winLength, boardSize - 1, 1, -1)

\* checkWinner's result before it is reduced to res.winner: rows, then
\* columns, then the two diagonal families; the first run found
checkWinnerRes(board) ==
    LET rows == LoopNest(board, 0, boardSize - 1, 0, boardSize - winLength, 0, 1)
    IN IF rows.winner # NULL THEN rows
    ELSE LET columns == LoopNest(board, 0, boardSize - winLength,
                                 0, boardSize - 1, 1, 0)
    IN IF columns.winner # NULL THEN columns
    ELSE LET diagonals == LoopNest(board, 0, boardSize - winLength,
                                   0, boardSize - winLength, 1, 1)
    IN IF diagonals.winner # NULL THEN diagonals
    ELSE LoopNest(board, 0, boardSize - winLength,
                  winLength - 1, boardSize - 1, 1, -1)

checkWinner(board) == checkWinnerRes(board).winner

\* isBoardFull answering after its first row
isBoardFullFirstRow(board) == \A j \in Idx : board[0][j] # ""

isBoardFull(board) == \A i \in Idx : \A j \in Idx : board[i][j] # ""

\* ------------------------------------------------- search (small boards)
opponent == IF aiPlayer = "X" THEN "O" ELSE "X"

\* checkSequence of checkWinnerForMinimax with its loop one cell short
checkSequenceShort(board, r, c, dr, dc) ==
    LET first == board[r][c] IN
    IF first = "" THEN NULL
    ELSE IF \A k \in 1 .. (winLength - 2) :
                LET rr == r + dr * k
                    cc == c + dc * k
                IN /\ ~(rr < 0 \/ rr >= boardSize \/ cc < 0 \/ cc >= boardSize)
                   /\ board[rr][cc] = first
         THEN first
         ELSE NULL

\* checkSequence of checkWinnerForMinimax: the mark of a run, or NULL
checkSequenceForMinimax(board, r, c, dr, dc) ==
    LET first == board[r][c] IN
    IF first = "" THEN NULL
    ELSE IF \A k \in 1 .. (winLength - 1) :
                LET rr == r + dr * k
                    cc == c + dc * k
                IN /\ ~(rr < 0 \/ rr >= boardSize \/ cc < 0 \/ cc >= boardSize)
                   /\ board[rr][cc] = first
         THEN first
         ELSE NULL

\* One loop nest of checkWinnerForMinimax
RECURSIVE InnerLoopForMinimax(_, _, _, _, _, _)
InnerLoopForMinimax(board, i, j, jMax, dr, dc) ==
    IF j > jMax THEN NULL
    ELSE LET res == checkSequenceForMinimax(board, i, j, dr, dc)
         IN IF res # NULL THEN res
            ELSE InnerLoopForMinimax(board, i, j + 1, jMax, dr, dc)

RECURSIVE LoopNestForMinimax(_, _, _, _, _, _, _)
LoopNestForMinimax(board, i, iMax, jMin, jMax, dr, dc) ==
    IF i > iMax THEN NULL
    ELSE LET res == InnerLoopForMinimax(board, i, jMin, jMax, dr, dc)
         IN IF res # NULL THEN res
            ELSE LoopNestForMinimax(board, i + 1, iMax, jMin, jMax, dr, dc)

checkWinnerForMinimax(board) ==
    LET rows == LoopNestForMinimax(board, 0, boardSize - 1,
                                   0, boardSize - winLength, 0, 1)
    IN IF rows # NULL THEN rows
    ELSE LET columns == LoopNestForMinimax(board, 0, boardSize - winLength,
                                           0, boardSize - 1, 1, 0)
    IN IF columns # NULL THEN columns
    ELSE LET diagonals == LoopNestForMinimax(board, 0, boardSize - winLength,
                                             0, boardSize - winLength, 1, 1)
    IN IF diagonals # NULL THEN diagonals
    ELSE LoopNestForMinimax(board, 0, boardSize - winLength,
                            winLength - 1, boardSize - 1, 1, -1)

isBoardFullForMinimax(board) == \A i \in Idx : \A j \in Idx : board[i][j] # ""

RECURSIVE Pow10(_)
Pow10(n) == IF n = 0 THEN 1 ELSE 10 * Pow10(n - 1)

\* scoreSequence of evaluateBoard
scoreSequence(board, r, c, dr, dc) ==
    IF \E k \in 0 .. (winLength - 1) : ~InBounds(r + dr * k, c + dc * k)
    THEN 0
    ELSE LET countAI == Cardinality({k \in 0 .. (winLength - 1) :
                            board[r + dr * k][c + dc * k] = aiPlayer})
             countOpp == Cardinality({k \in 0 .. (winLength - 1) :
                            board[r + dr * k][c + dc * k] = opponent})
         IN IF countAI > 0 /\ countOpp = 0 THEN Pow10(countAI)
            ELSE IF countOpp > 0 /\ countAI = 0 THEN 0 - Pow10(countOpp)
            ELSE 0

\* One loop nest of evaluateBoard: the sum of scoreSequence over it
RECURSIVE InnerSum(_, _, _, _, _, _)
InnerSum(board, i, j, jMax, dr, dc) ==
    IF j > jMax THEN 0
    ELSE scoreSequence(board, i, j, dr, dc)
         + InnerSum(board, i, j + 1, jMax, dr, dc)

RECURSIVE SumNest(_, _, _, _, _, _, _)
SumNest(board, i, iMax, jMin, jMax, dr, dc) ==
    IF i > iMax THEN 0
    ELSE InnerSum(board, i, jMin, jMax, dr, dc)
         + SumNest(board, i + 1, iMax, jMin, jMax, dr, dc)

evaluateBoard(board) ==
    SumNest(board, 0, boardSize - 1, 0, boardSize - winLength, 0, 1)
    + SumNest(board, 0, boardSize - winLength, 0, boardSize - 1, 1, 0)
    + SumNest(board, 0, boardSize - winLength, 0, boardSize - winLength, 1, 1)
    + SumNest(board, 0, boardSize - winLength, winLength - 1, boardSize - 1, 1, -1)

\* minimax works on the shared board: it places a mark, recurses and
\* retracts; the result carries the score and the board as the call left it.
\* The loops over (i, j) are unrolled over n = i * boardSize + j.
\* the index, in row-major order, of the first empty cell at or after n
\* (boardSize * boardSize if there is none): the cells both nested for
\* loops of the search skip with `if (board[i][j] === '')`
NextEmpty(board, n) ==
    LET last == boardSize * boardSize - 1 IN
    IF \E m \in n..last : board[m \div boardSize][m % boardSize] = ""
    THEN CHOOSE m \in n..last :
             /\ board[m \div boardSize][m % boardSize] = ""
             /\ \A o \in n..(m - 1) : board[o \div boardSize][o % boardSize] # ""
    ELSE boardSize * boardSize

RECURSIVE minimax(_, _, _, _, _, _)
RECURSIVE MaximizingLoop(_, _, _, _, _, _, _)
RECURSIVE MinimizingLoop(_, _, _, _, _, _, _)

\* minimax scoring a win of the computer higher the deeper it is
minimaxLateWin(board, depth, isMaximizing, alpha, beta, maxDepth) ==
    LET winner == checkWinnerForMinimax(board) IN
    IF winner = aiPlayer THEN [score |-> 1000 + depth, board |-> board]
    ELSE IF winner = opponent THEN [score |-> depth - 1000, board |-> board]
    ELSE IF isBoardFullForMinimax(board) THEN [score |-> 0, board |-> board]
    ELSE IF depth >= maxDepth
         THEN [score |-> evaluateBoard(board), board |-> board]
    ELSE IF isMaximizing
         THEN MaximizingLoop(board, depth, NextEmpty(board, 0), 0 - Infinity, alpha, beta, maxDepth)
         ELSE MinimizingLoop(board, depth, NextEmpty(board, 0), Infinity, alpha, beta, maxDepth)

minimax(board, depth, isMaximizing, alpha, beta, maxDepth) ==
    LET winner == checkWinnerForMinimax(board) IN
    IF winner = aiPlayer THEN [score |-> 1000 - depth, board |-> board]
    ELSE IF winner = opponent THEN [score |-> depth - 1000, board |-> board]
    ELSE IF isBoardFullForMinimax(board) THEN [score |-> 0, board |-> board]
    ELSE IF depth >= maxDepth
         THEN [score |-> evaluateBoard(board), board |-> board]
    ELSE IF isMaximizing
         THEN MaximizingLoop(board, depth, NextEmpty(board, 0), 0 - Infinity, alpha, beta, maxDepth)
         ELSE MinimizingLoop(board, depth, NextEmpty(board, 0), Infinity, alpha, beta, maxDepth)

\* the maximizing loop with the comparison of its cutoff test turned round
MaximizingLoopCutTurned(board, depth, n, bestScore, alpha, beta, maxDepth) ==
    IF n >= boardSize * boardSize THEN [score |-> bestScore, board |-> board]
    ELSE LET i == n \div boardSize
             j == n % boardSize
         IN IF board[i][j] # ""
            THEN MaximizingLoop(board, depth, NextEmpty(board, n + 1), bestScore, alpha, beta, maxDepth)
            ELSE LET sub == minimax(SetCell(board, i, j, aiPlayer), depth + 1,
                                    FALSE, alpha, beta, maxDepth)
                     after == SetCell(sub.board, i, j, "")
                     best == Max(sub.score, bestScore)
                     a == Max(alpha, sub.score)
                 IN IF beta >= a THEN [score |-> best, board |-> after]
                    ELSE MaximizingLoop(after, depth, NextEmpty(after, n + 1), best, a, beta, maxDepth)

MaximizingLoop(board, depth, n, bestScore, alpha, beta, maxDepth) ==
    IF n >= boardSize * boardSize THEN [score |-> bestScore, board |-> board]
    ELSE LET i == n \div boardSize
             j == n % boardSize
         IN IF board[i][j] # ""
            THEN MaximizingLoop(board, depth, NextEmpty(board, n + 1), bestScore, alpha, beta, maxDepth)
            ELSE LET sub == minimax(SetCell(board, i, j, aiPlayer), depth + 1,
                                    FALSE, alpha, beta, maxDepth)
                     after == SetCell(sub.board, i, j, "")
                     best == Max(sub.score, bestScore)
                     a == Max(alpha, sub.score)
                 IN IF beta <= a THEN [score |-> best, board |-> after]
                    ELSE MaximizingLoop(after, depth, NextEmpty(after, n + 1), best, a, beta, maxDepth)

\* the minimizing loop returning on a cutoff before it retracts its mark
MinimizingLoopNoRetract(board, depth, n, bestScore, alpha, beta, maxDepth) ==
    IF n >= boardSize * boardSize THEN [score |-> bestScore, board |-> board]
    ELSE LET i == n \div boardSize
             j == n % boardSize
         IN IF board[i][j] # ""
            THEN MinimizingLoop(board, depth, NextEmpty(board, n + 1), bestScore, alpha, beta, maxDepth)
            ELSE LET sub == minimax(SetCell(board, i, j, opponent), depth + 1,
                                    TRUE, alpha, beta, maxDepth)
                     after == SetCell(sub.board, i, j, "")
                     best == Min(sub.score, bestScore)
                     b == Min(beta, sub.score)
                 IN IF b <= alpha THEN [score |-> best, board |-> sub.board]
                    ELSE MinimizingLoop(after, depth, NextEmpty(after, n + 1), best, alpha, b, maxDepth)

MinimizingLoop(board, depth, n, bestScore, alpha, beta, maxDepth) ==
    IF n >= boardSize * boardSize THEN [score |-> bestScore, board |-> board]
    ELSE LET i == n \div boardSize
             j == n % boardSize
         IN IF board[i][j] # ""
            THEN MinimizingLoop(board, depth, NextEmpty(board, n + 1), bestScore, alpha, beta, maxDepth)
            ELSE LET sub == minimax(SetCell(board, i, j, opponent), depth + 1,
                                    TRUE, alpha, beta, maxDepth)
                     after == SetCell(sub.board, i, j, "")
                     best == Min(sub.score, bestScore)
                     b == Min(beta, sub.score)
                 IN IF b <= alpha THEN [score |-> best, board |-> after]
                    ELSE MinimizingLoop(after, depth, NextEmpty(after, n + 1), best, alpha, b, maxDepth)

\* the depth table of findBestMove
MaxDepthFor(size) ==
    IF size <= 3 THEN 9
    ELSE IF size = 4 THEN 6
    ELSE IF size = 5 THEN 4
    ELSE 3

NoMove == [row |-> -1, col |-> -1]

RECURSIVE BestMoveLoop(_, _, _, _, _)

\* findBestMove's loop searching each candidate as if the computer moved
\* again (isMaximizing true)
BestMoveLoopOwnTurn(board, n, bestScore, bestMove, maxDepth) ==
    IF n >= boardSize * boardSize THEN [move |-> bestMove, board |-> board]
    ELSE LET i == n \div boardSize
             j == n % boardSize
         IN IF board[i][j] # ""
            THEN BestMoveLoop(board, NextEmpty(board, n + 1), bestScore, bestMove, maxDepth)
            ELSE LET sub == minimax(SetCell(board, i, j, aiPlayer), 0, TRUE,
                                    0 - Infinity, Infinity, maxDepth)
                     after == SetCell(sub.board, i, j, "")
                 IN IF sub.score > bestScore
                    THEN BestMoveLoop(after, NextEmpty(after, n + 1), sub.score,
                                      [row |-> i, col |-> j], maxDepth)
                    ELSE BestMoveLoop(after, NextEmpty(after, n + 1), bestScore, bestMove, maxDepth)

BestMoveLoop(board, n, bestScore, bestMove, maxDepth) ==
    IF n >= boardSize * boardSize THEN [move |-> bestMove, board |-> board]
    ELSE LET i == n \div boardSize
             j == n % boardSize
         IN IF board[i][j] # ""
            THEN BestMoveLoop(board, NextEmpty(board, n + 1), bestScore, bestMove, maxDepth)
            ELSE LET sub == minimax(SetCell(board, i, j, aiPlayer), 0, FALSE,
                                    0 - Infinity, Infinity, maxDepth)
                     after == SetCell(sub.board, i, j, "")
                 IN IF sub.score > bestScore
                    THEN BestMoveLoop(after, NextEmpty(after, n + 1), sub.score,
                                      [row |-> i, col |-> j], maxDepth)
                    ELSE BestMoveLoop(after, NextEmpty(after, n + 1), bestScore, bestMove, maxDepth)

\* findBestMove: the chosen cell (NoMove for null) and the board it leaves
findBestMove(board) ==
    BestMoveLoop(board, NextEmpty(board, 0), 0 - Infinity, NoMove, MaxDepthFor(boardSize))

\* --------------------------------------------- heuristics (large boards)
RECURSIVE WinningMoveInRow(_, _, _, _)
WinningMoveInRow(board, player, i, j) ==
    IF j >= boardSize THEN [move |-> NoMove, board |-> board]
    ELSE IF board[i][j] # "" THEN WinningMoveInRow(board, player, i, j + 1)
    ELSE LET winner == checkWinnerForMinimax(SetCell(board, i, j, player))
             after == SetCell(SetCell(board, i, j, player), i, j, "")
         IN IF winner = player
            THEN [move |-> [row |-> i, col |-> j], board |-> after]
            ELSE WinningMoveInRow(after, player, i, j + 1)

RECURSIVE WinningMoveLoop(_, _, _)
WinningMoveLoop(board, player, i) ==
    IF i >= boardSize THEN [move |-> NoMove, board |-> board]
    ELSE LET found == WinningMoveInRow(board, player, i, 0)
         IN IF found.move # NoMove THEN found
            ELSE WinningMoveLoop(found.board, player, i + 1)

\* findWinningMove: the first cell that completes a run for player, and the
\* board the scan leaves
findWinningMove(board, player) == WinningMoveLoop(board, player, 0)

\* the corners taken clockwise
cornersClockwise == <<<<0, 0>>, <<0, boardSize - 1>>,
                      <<boardSize - 1, boardSize - 1>>, <<boardSize - 1, 0>>>>

corners == <<<<0, 0>>, <<0, boardSize - 1>>, <<boardSize - 1, 0>>,
             <<boardSize - 1, boardSize - 1>>>>

findStrategicMove(board) ==
    LET center == boardSize \div 2 IN
    IF board[center][center] = "" THEN [row |-> center, col |-> center]
    ELSE LET free == {n \in 1 .. 4 : board[corners[n][1]][corners[n][2]] = ""}
         IN IF free = {} THEN NoMove
            ELSE LET n == CHOOSE m \in free : \A o \in free : m <= o
                 IN [row |-> corners[n][1], col |-> corners[n][2]]

\* ------------------------------------------------------- turn handling
Turn(player) == [kind |-> "turn", player |-> player]
Wins(player) == [kind |-> "wins", player |-> player]
Tie == [kind |-> "tie", player |-> ""]

\* the part of the state a click or a computer move can write
Here == [gameBoard |-> gameBoard, currentPlayer |-> currentPlayer,
         gameActive |-> gameActive, status |-> status, timers |-> timers]

\* gameBoard[row][col] = currentPlayer
makeMove(board, row, col, player) == SetCell(board, row, col, player)

switchPlayer(player) == IF player = "X" THEN "O" ELSE "X"

\* updateStatus: the status text once the turn is player's
updateStatus(active, player, text) == IF active THEN Turn(player) ELSE text

\* endGame leaving the game active
endGameStillActive(board, player, result) ==
    [gameBoard |-> board, currentPlayer |-> player, gameActive |-> TRUE,
     status |-> IF result = "tie" THEN Tie ELSE Wins(result),
     timers |-> timers]

\* endGame(result), on the board the move produced
endGame(board, player, result) ==
    [gameBoard |-> board, currentPlayer |-> player, gameActive |-> FALSE,
     status |-> IF result = "tie" THEN Tie ELSE Wins(result),
     timers |-> timers]

\* checkGameEnd, after a heuristic move by player produced board
checkGameEnd(board, player) ==
    LET winner == checkWinner(board) IN
    IF winner # NULL THEN endGame(board, player, winner)
    ELSE IF isBoardFull(board) THEN endGame(board, player, "tie")
    ELSE [gameBoard |-> board, currentPlayer |-> switchPlayer(player),
          gameActive |-> gameActive, status |-> updateStatus(gameActive, switchPlayer(player), status),
          timers |-> timers]

\* makeRandomMove: every board Math.random can produce
makeRandomMove(board, player) ==
    LET emptyCells == {c \in Cells : board[c[1]][c[2]] = ""} IN
    IF emptyCells = {} THEN {board}
    ELSE {makeMove(board, c[1], c[2], player) : c \in emptyCells}

\* makeHeuristicAIMove from its fallback to a random move on
HeuristicRandom(board) ==
    {checkGameEnd(b, currentPlayer) : b \in makeRandomMove(board, currentPlayer)}

\* makeHeuristicAIMove from its strategic move on
HeuristicStrategic(board, move) ==
    IF move # NoMove
    THEN {checkGameEnd(makeMove(board, move.row, move.col, currentPlayer),
                       currentPlayer)}
    ELSE HeuristicRandom(board)

\* makeHeuristicAIMove from its blocking move on
HeuristicBlock(block) ==
    IF block.move # NoMove
    THEN {checkGameEnd(makeMove(block.board, block.move.row, block.move.col,
                                currentPlayer), currentPlayer)}
    ELSE HeuristicStrategic(block.board, findStrategicMove(block.board))

\* makeHeuristicAIMove looking for a block before it looks at its own win
HeuristicWinAfterBlock(win) ==
    HeuristicBlock(findWinningMove(win.board,
                                   IF currentPlayer = "X" THEN "O" ELSE "X"))

\* makeHeuristicAIMove from its winning move on
HeuristicWin(win) ==
    IF win.move # NoMove
    THEN {checkGameEnd(makeMove(win.board, win.move.row, win.move.col,
                                currentPlayer), currentPlayer)}
    ELSE HeuristicBlock(findWinningMove(win.board,
                                        IF currentPlayer = "X" THEN "O" ELSE "X"))

\* makeHeuristicAIMove: the states it can leave
makeHeuristicAIMove == HeuristicWin(findWinningMove(gameBoard, aiPlayer))

\* makeAIMove once bestMove is placed on the board
AfterBestMove(board, winner) ==
    IF winner # NULL THEN endGame(board, currentPlayer, winner)
    ELSE IF isBoardFull(board) THEN endGame(board, currentPlayer, "tie")
    ELSE [gameBoard |-> board,
          currentPlayer |-> switchPlayer(currentPlayer),
          gameActive |-> gameActive,
          status |-> updateStatus(gameActive, switchPlayer(currentPlayer), status),
          timers |-> timers]

\* makeAIMove's placement writing the computer's mark whoever's turn it is
PlaceBestMoveAsO(best) ==
    IF best.move # NoMove
    THEN {AfterBestMove(makeMove(best.board, best.move.row, best.move.col,
                                 aiPlayer),
                        checkWinner(makeMove(best.board, best.move.row,
                                             best.move.col, aiPlayer)))}
    ELSE {[Here EXCEPT !.gameBoard = best.board]}

\* makeAIMove on a board up to 5x5, from the result of findBestMove on
PlaceBestMove(best) ==
    IF best.move # NoMove
    THEN {AfterBestMove(makeMove(best.board, best.move.row, best.move.col,
                                 currentPlayer),
                        checkWinner(makeMove(best.board, best.move.row,
                                             best.move.col, currentPlayer)))}
    ELSE {[Here EXCEPT !.gameBoard = best.board]}

\* makeAIMove without its gameActive test
makeAIMoveAfterEnd ==
    IF boardSize > 5 THEN makeHeuristicAIMove
    ELSE PlaceBestMove(findBestMove(gameBoard))

\* makeAIMove, the timer callback: the states it can leave
makeAIMove ==
    IF ~gameActive THEN {Here}
    ELSE IF boardSize > 5 THEN makeHeuristicAIMove
    ELSE PlaceBestMove(findBestMove(gameBoard))

\* handleCellClick without its gameActive test
handleCellClickAfterEnd(row, col) ==
    IF gameBoard[row][col] # "" THEN Here
    ELSE LET board == makeMove(gameBoard, row, col, currentPlayer)
             winner == checkWinner(board)
         IN IF winner # NULL THEN endGame(board, currentPlayer, winner)
            ELSE IF isBoardFull(board) THEN endGame(board, currentPlayer, "tie")
            ELSE LET next == switchPlayer(currentPlayer) IN
                 [gameBoard |-> board, currentPlayer |-> next,
                  gameActive |-> gameActive,
                  status |-> updateStatus(gameActive, next, status),
                  timers |-> IF gameMode = "ai" /\ next = aiPlayer /\ gameActive
                             THEN timers + 1 ELSE timers]

\* handleCellClick without its test of the cell
handleCellClickOccupied(row, col) ==
    IF ~gameActive THEN Here
    ELSE LET board == makeMove(gameBoard, row, col, currentPlayer)
             winner == checkWinner(board)
         IN IF winner # NULL THEN endGame(board, currentPlayer, winner)
            ELSE IF isBoardFull(board) THEN endGame(board, currentPlayer, "tie")
            ELSE LET next == switchPlayer(currentPlayer) IN
                 [gameBoard |-> board, currentPlayer |-> next,
                  gameActive |-> gameActive,
                  status |-> updateStatus(gameActive, next, status),
                  timers |-> IF gameMode = "ai" /\ next = aiPlayer /\ gameActive
                             THEN timers + 1 ELSE timers]

\* handleCellClick(row, col): the state it leaves
handleCellClick(row, col) ==
    IF ~gameActive \/ gameBoard[row][col] # "" THEN Here
    ELSE LET board == makeMove(gameBoard, row, col, currentPlayer)
             winner == checkWinner(board)
         IN IF winner # NULL THEN endGame(board, currentPlayer, winner)
            ELSE IF isBoardFull(board) THEN endGame(board, currentPlayer, "tie")
            ELSE LET next == switchPlayer(currentPlayer) IN
                 [gameBoard |-> board, currentPlayer |-> next,
                  gameActive |-> gameActive,
                  status |-> updateStatus(gameActive, next, status),
                  timers |-> IF gameMode = "ai" /\ next = aiPlayer /\ gameActive
                             THEN timers + 1 ELSE timers]

\* ---------------------------------------------------------------- actions
Write(s) ==
    /\ gameBoard' = s.gameBoard
    /\ currentPlayer' = s.currentPlayer
    /\ gameActive' = s.gameActive
    /\ status' = s.status

\* initGame leaving the run length at three whatever the size
InitGameRunOfThree(size, mode) ==
    /\ boardSize' = size
    /\ gameMode' = mode
    /\ currentPlayer' = "X"
    /\ gameActive' = TRUE
    /\ winLength' = 3
    /\ gameBoard' = EmptyBoard(size)
    /\ status' = Turn("X")
    /\ UNCHANGED timers

\* initGame with the two <select> values (a change of either, or Reset);
\* pending timers are not cleared
InitGame(size, mode) ==
    /\ boardSize' = size
    /\ gameMode' = mode
    /\ currentPlayer' = "X"
    /\ gameActive' = TRUE
    /\ winLength' = (IF size > 6 THEN 4 ELSE 3)
    /\ gameBoard' = EmptyBoard(size)
    /\ status' = Turn("X")
    /\ UNCHANGED timers

\* a click on cell (row, col) of the displayed board
HandleCellClick(row, col) ==
    LET s == handleCellClick(row, col) IN
    /\ s.timers <= MaxTimers
    /\ Write(s)
    /\ timers' = s.timers
    /\ UNCHANGED <<boardSize, gameMode, winLength>>

\* a pending timer fires and runs makeAIMove
MakeAIMove ==
    /\ timers > 0
    /\ \E s \in makeAIMove :
          /\ Write(s)
          /\ timers' = s.timers - 1
    /\ UNCHANGED <<boardSize, gameMode, winLength>>

\* the page after DOMContentLoaded has run initGame
Init ==
    /\ boardSize \in SizeOptions
    /\ gameMode \in ModeOptions
    /\ currentPlayer = "X"
    /\ gameActive = TRUE
    /\ winLength = (IF boardSize > 6 THEN 4 ELSE 3)
    /\ gameBoard = EmptyBoard(boardSize)
    /\ status = Turn("X")
    /\ timers = 0

Reset == \E size \in SizeOptions : \E mode \in ModeOptions : InitGame(size, mode)
\* the cells the model clicks
Clickable(row, col) ==
    IF boardSize > 5 THEN row * boardSize + col < MaxLargeCells
    ELSE gameBoard = EmptyBoard(boardSize) => row * boardSize + col < MaxOpenings

Click ==
    \E row \in Idx : \E col \in Idx :
        /\ Clickable(row, col)
        /\ HandleCellClick(row, col)

Next == Reset \/ Click \/ MakeAIMove

Spec == Init /\ [][Next]_vars

TypeOK ==
    /\ boardSize \in SizeOptions
    /\ gameMode \in ModeOptions
    /\ currentPlayer \in Marks
    /\ gameActive \in BOOLEAN
    /\ gameBoard \in [Idx -> [Idx -> Marks \cup {""}]]
    /\ timers \in 0 .. MaxTimers

\* the human waits for the computer's answer: 3x3, human against computer,
\* every click made while no computer move is pending, no reset
InitAlternate ==
    /\ boardSize = 3
    /\ gameMode = "ai"
    /\ currentPlayer = "X"
    /\ gameActive = TRUE
    /\ winLength = 3
    /\ gameBoard = EmptyBoard(3)
    /\ status = Turn("X")
    /\ timers = 0

HumanMove ==
    /\ timers = 0
    /\ \E row \in Idx : \E col \in Idx : HandleCellClick(row, col)

NextAlternate == HumanMove \/ MakeAIMove

SpecAlternate == InitAlternate /\ [][NextAlternate]_vars

\* one session: clicks and timers in any order, no initGame after the first
NextSession == Click \/ MakeAIMove

SpecSession == Init /\ [][NextSession]_vars

\* Boards for the win detectors: any size and run length of the ranges
\* below, any marks on any cells; beyond 3x3, up to MaxMarks of them. The
\* marks are put down in row-major order, so each board is built once.
BoardSizes == {3, 4}

InitBoards ==
    /\ boardSize \in BoardSizes
    /\ winLength \in 2 .. boardSize
    /\ gameMode = "human"
    /\ currentPlayer = "X"
    /\ gameActive = TRUE
    /\ gameBoard = EmptyBoard(boardSize)
    /\ status = Turn("X")
    /\ timers = 0

PlaceMark(row, col, mark) ==
    /\ boardSize > 3 => MarkCount(gameBoard) < MaxMarks
    /\ \A c \in Cells :
          c[1] * boardSize + c[2] >= row * boardSize + col
             => gameBoard[c[1]][c[2]] = ""
    /\ gameBoard' = SetCell(gameBoard, row, col, mark)
    /\ UNCHANGED <<boardSize, gameMode, currentPlayer, gameActive, winLength,
                   status, timers>>

NextBoards ==
    \E row \in Idx : \E col \in Idx : \E mark \in Marks :
        PlaceMark(row, col, mark)

SpecBoards == InitBoards /\ [][NextBoards]_vars

\* Boards for the search: a full board without a run of three, with some of
\* its first MaxSearchCells cells emptied, and the computer about to move.
SearchSizes == {3, 4, 5}

NoRunBoard(n) ==
    [i \in 0 .. (n - 1) |->
        [j \in 0 .. (n - 1) |-> IF (j + 2 * i) % 4 < 2 THEN "X" ELSE "O"]]

Emptied(board, n, cells) ==
    [i \in 0 .. (n - 1) |->
        [j \in 0 .. (n - 1) |-> IF <<i, j>> \in cells THEN "" ELSE board[i][j]]]

InitSearch ==
    /\ boardSize \in SearchSizes
    /\ winLength = 3
    /\ gameMode = "ai"
    /\ currentPlayer = "O"
    /\ gameActive = TRUE
    /\ \E cells \in SUBSET {c \in Cells :
                               c[1] * boardSize + c[2] < MaxSearchCells} :
          /\ cells # {}
          /\ gameBoard = Emptied(NoRunBoard(boardSize), boardSize, cells)
    /\ status = Turn("O")
    /\ timers = 1

SpecSearch == InitSearch /\ [][MakeAIMove]_vars

\* Boards for the heuristic selector: a 6x6 or 7x7 board without a run whose
\* marks are on the corners, the center and the start of the first row, one
\* more 'X' than 'O', with the computer's move pending on its turn.
HeuristicSizes == {6, 7}

HeuristicCells ==
    {<<boardSize \div 2, boardSize \div 2>>}
        \cup {corners[n] : n \in 1 .. 4}
        \cup {<<0, j>> : j \in 1 .. (winLength - 1)}

InitHeuristic ==
    /\ boardSize \in HeuristicSizes
    /\ winLength = (IF boardSize > 6 THEN 4 ELSE 3)
    /\ gameMode = "ai"
    /\ currentPlayer = aiPlayer
    /\ gameActive = TRUE
    /\ \E marks \in [HeuristicCells -> Marks \cup {""}] :
          /\ Cardinality({c \in HeuristicCells : marks[c] # ""}) <= MaxHeuristicMarks
          /\ Cardinality({c \in HeuristicCells : marks[c] = "X"})
                = Cardinality({c \in HeuristicCells : marks[c] = "O"}) + 1
          /\ gameBoard = [i \in Idx |-> [j \in Idx |->
                             IF <<i, j>> \in HeuristicCells THEN marks[<<i, j>>]
                             ELSE ""]]
    /\ checkWinner(gameBoard) = NULL
    /\ status = Turn(currentPlayer)
    /\ timers = 1

SpecHeuristic == InitHeuristic /\ [][MakeAIMove]_vars

\* initGame with a size value below the smallest one the page offers: the
\* sessions of sizes 2 and 3, with clicks and timers in any order
SmallSizes == {2, 3}

InitSmall ==
    /\ boardSize = 3
    /\ gameMode \in ModeOptions
    /\ currentPlayer = "X"
    /\ gameActive = TRUE
    /\ winLength = 3
    /\ gameBoard = EmptyBoard(3)
    /\ status = Turn("X")
    /\ timers = 0

ResetSmall == \E size \in SmallSizes : \E mode \in ModeOptions : InitGame(size, mode)

NextSmall == ResetSmall \/ Click \/ MakeAIMove

SpecSmall == InitSmall /\ [][NextSmall]_vars

\* Boards for the search on 3x3 and 4x4 at the computer's turn: the marks
\* fill the first MaxMarkedRows rows but for one cell, one more 'X' than
\* 'O', and make no run.
MinimaxSizes == {3, 4}

InitMinimax ==
    /\ boardSize \in MinimaxSizes
    /\ winLength = 3
    /\ gameMode = "ai"
    /\ currentPlayer = aiPlayer
    /\ gameActive = TRUE
    /\ \E marks \in [{c \in Cells : c[1] < MaxMarkedRows} -> Marks \cup {""}] :
          /\ Cardinality({c \in DOMAIN marks : marks[c] = ""}) = 1
          /\ Cardinality({c \in DOMAIN marks : marks[c] = "X"})
                = Cardinality({c \in DOMAIN marks : marks[c] = "O"}) + 1
          /\ gameBoard = [i \in Idx |-> [j \in Idx |->
                             IF i < MaxMarkedRows THEN marks[<<i, j>>] ELSE ""]]
    /\ checkWinner(gameBoard) = NULL
    /\ status = Turn(currentPlayer)
    /\ timers = 1

SpecMinimax == InitMinimax /\ [][MakeAIMove]_vars

\* ------------------------------------------------------------ properties
\* a run: winLength equal marks on consecutive cells of a row, a column or
\* a diagonal of the board
RunAt(board, r, c, dr, dc) ==
    /\ board[r][c] # ""
    /\ \A k \in 1 .. (winLength - 1) :
          /\ InBounds(r + dr * k, c + dc * k)
          /\ board[r + dr * k][c + dc * k] = board[r][c]

Directions == {<<0, 1>>, <<1, 0>>, <<1, 1>>, <<1, -1>>}

HasRun(board) ==
    \E c \in Cells : \E d \in Directions : RunAt(board, c[1], c[2], d[1], d[2])

HasRunOf(board, mark) ==
    \E c \in Cells : \E d \in Directions :
        board[c[1]][c[2]] = mark /\ RunAt(board, c[1], c[2], d[1], d[2])

\* a step that runs makeAIMove (no other step takes a timer away)
TimerStep == timers' = timers - 1

\* the cells a step writes
Written == {c \in Cells : gameBoard'[c[1]][c[2]] # gameBoard[c[1]][c[2]]}

\* C1: on a 3x3 board, with the computer answering every human move, no
\* finished game has X as its winner: it is a tie or a win for O.
C1_ComputerNeverLoses ==
    ~gameActive => /\ status \in {Tie, Wins("O")}
                   /\ ~HasRunOf(gameBoard, "X")

C1_Witness == ~gameActive /\ status = Wins("O") /\ MarkCount(gameBoard) >= 6

\* C2: a computer move that places a mark runs on the computer's turn of a
\* game in progress and writes the computer's mark 'O'.
C2_ComputerMovesAsO ==
    [][(TimerStep /\ gameMode = "ai" /\ boardSize' = boardSize /\ Written # {})
        => /\ currentPlayer = aiPlayer
           /\ gameActive
           /\ \A c \in Written : gameBoard'[c[1]][c[2]] = "O"]_vars

\* C3: a computer move scheduled before initGame leaves the new session
\* alone: on the all-empty board of a fresh session it neither places a mark
\* nor switches the turn, and in human-vs-human mode it never places a mark.
C3_NoMoveFromEarlierSession ==
    [][TimerStep =>
         /\ gameBoard = EmptyBoard(boardSize)
               => UNCHANGED <<gameBoard, currentPlayer>>
         /\ gameMode = "human" => UNCHANGED gameBoard]_vars

\* C4: a click on an occupied cell, or any click once the game is over,
\* leaves the board, the turn, the active flag and the status as they were
\* and schedules no computer move.
C4_RejectedClickChangesNothing ==
    \A row \in Idx : \A col \in Idx :
        (~gameActive \/ gameBoard[row][col] # "")
            => handleCellClick(row, col) = Here

C4_Witness ==
    /\ ~gameActive
    /\ \E c \in Cells : gameBoard[c[1]][c[2]] = ""
    /\ \E c \in Cells : gameBoard[c[1]][c[2]] # ""

\* C5: apart from initGame, no step empties or changes a marked cell, and a
\* step writes at most one cell.
C5_MarksStay ==
    [][Reset \/ /\ \A c \in Cells :
                     gameBoard[c[1]][c[2]] # ""
                        => gameBoard'[c[1]][c[2]] = gameBoard[c[1]][c[2]]
                /\ Cardinality(Written) <= 1]_vars

C5_Witness == boardSize > 5 /\ gameMode = "ai" /\ MarkCount(gameBoard) >= 4

\* C6: once the game is over, only initGame changes the board, the turn or
\* the active flag: no click and no late timer does.
C6_FrozenAfterEnd ==
    [][~gameActive => (Reset \/ UNCHANGED <<gameBoard, currentPlayer, gameActive>>)]_vars

C6_Witness == ~gameActive /\ timers > 0

\* C10: a step that places a mark ends the game as a win of the mark placed
\* when the board then holds a run, as a tie when it holds none and is full,
\* and otherwise passes the turn to the other player.
C10_MoveResult ==
    [][\A c \in Cells :
          (boardSize' = boardSize /\ gameBoard[c[1]][c[2]] = ""
              /\ gameBoard'[c[1]][c[2]] # "")
          => IF HasRun(gameBoard')
             THEN ~gameActive' /\ status' = Wins(gameBoard'[c[1]][c[2]])
             ELSE IF MarkCount(gameBoard') = boardSize * boardSize
             THEN ~gameActive' /\ status' = Tie
             ELSE /\ gameActive'
                  /\ currentPlayer' \in Marks \ {gameBoard'[c[1]][c[2]]}
                  /\ status' = Turn(currentPlayer')]_vars

C10_Witness ==
    MarkCount(gameBoard) = boardSize * boardSize /\ status.kind = "wins"

\* C7: findBestMove, minimax and findWinningMove leave the board as they
\* found it.
C7_SearchRestoresBoard ==
    /\ findBestMove(gameBoard).board = gameBoard
    /\ \A isMaximizing \in BOOLEAN :
          minimax(gameBoard, 0, isMaximizing, 0 - Infinity, Infinity,
                  MaxDepthFor(boardSize)).board = gameBoard
    /\ \A player \in Marks : findWinningMove(gameBoard, player).board = gameBoard

C7_Witness ==
    /\ boardSize = 5
    /\ timers = 0
    /\ MarkCount(gameBoard) = boardSize * boardSize - MaxSearchCells + 1

\* C8: on a board that holds a run, both detectors report a winner, and the
\* cells checkWinner reports are winLength cells of the board, consecutive
\* along one direction, all holding the winner's mark. After X (0,0),
\* O (1,1), X (0,1), O (2,2), X (0,2) on 3x3 they are (0,0), (0,1), (0,2).
C8_RunIsDetected ==
    HasRun(gameBoard) =>
        LET res == checkWinnerRes(gameBoard) IN
        /\ (/\ winLength = 3
            /\ gameBoard = SetCell(SetCell(SetCell(SetCell(SetCell(
                               EmptyBoard(3), 0, 0, "X"), 1, 1, "O"),
                               0, 1, "X"), 2, 2, "O"), 0, 2, "X"))
              => /\ res.winner = "X"
                 /\ res.cells = <<<<0, 0>>, <<0, 1>>, <<0, 2>>>>
        /\ res.winner \in Marks
        /\ checkWinnerForMinimax(gameBoard) \in Marks
        /\ Len(res.cells) = winLength
        /\ \A k \in 1 .. winLength :
              /\ InBounds(res.cells[k][1], res.cells[k][2])
              /\ gameBoard[res.cells[k][1]][res.cells[k][2]] = res.winner
        /\ \E d \in Directions : \A k \in 1 .. (winLength - 1) :
              res.cells[k + 1] = <<res.cells[k][1] + d[1], res.cells[k][2] + d[2]>>

C8_Witness ==
    /\ boardSize = 4
    /\ winLength = 3
    /\ RunAt(gameBoard, 0, 3, 1, -1)
    /\ MarkCount(gameBoard) = 4

\* C9: on a board without a run both detectors report no winner, and on
\* every board they report the same winner.
C9_NoRunNoWinner ==
    /\ ~HasRun(gameBoard) =>
          checkWinner(gameBoard) = NULL /\ checkWinnerForMinimax(gameBoard) = NULL
    /\ checkWinner(gameBoard) = checkWinnerForMinimax(gameBoard)

C9_Witness ==
    /\ boardSize = 4
    /\ winLength = 4
    /\ MarkCount(gameBoard) = 4
    /\ ~HasRun(gameBoard)
    /\ \A j \in 0 .. 2 : gameBoard[0][j] = "X"

\* placing mark on the empty cell (r, c) completes a run through it
CompletesRun(board, r, c, mark) ==
    /\ board[r][c] = ""
    /\ \E d \in Directions : \E s \in 0 .. (winLength - 1) :
          \A k \in 0 .. (winLength - 1) :
             /\ InBounds(r + (k - s) * d[1], c + (k - s) * d[2])
             /\ k # s => board[r + (k - s) * d[1]][c + (k - s) * d[2]] = mark

CompletingCells(board, mark) ==
    {c \in Cells : CompletesRun(board, c[1], c[2], mark)}

\* the first cell of a set in row-major order
FirstCell(S) ==
    CHOOSE c \in S : \A o \in S :
        c[1] * boardSize + c[2] <= o[1] * boardSize + o[2]

\* C11: on a board larger than 5x5, a computer move made on the computer's
\* turn while some empty cell completes a run of 'O' writes 'O' into the
\* first such cell and nowhere else, and ends the game as a win of 'O'.
C11_WinNow ==
    [][(/\ TimerStep /\ boardSize > 5 /\ gameActive
        /\ currentPlayer = aiPlayer
        /\ CompletingCells(gameBoard, aiPlayer) # {})
        => /\ Written = {FirstCell(CompletingCells(gameBoard, aiPlayer))}
           /\ \A c \in Written : gameBoard'[c[1]][c[2]] = aiPlayer
           /\ ~gameActive'
           /\ status' = Wins(aiPlayer)]_vars

C11_Witness ==
    /\ boardSize = 7
    /\ timers = 0
    /\ status = Wins("O")
    /\ RunAt(gameBoard, 0, 0, 0, 1)
    /\ gameBoard[0][4] = ""

\* C12: initGame creates a session only for a size of at least 3: with a
\* smaller size no board is built and no game is in progress.
C12_SizeValidated == boardSize >= 3

\* the run length follows from the size, and the board is size x size
Configured ==
    /\ winLength = (IF boardSize <= 6 THEN 3 ELSE 4)
    /\ DOMAIN gameBoard = Idx
    /\ \A i \in Idx : DOMAIN gameBoard[i] = Idx

\* C13: in every state the run length is 3 up to size 6 and 4 beyond, and
\* the board is boardSize x boardSize; only initGame changes boardSize,
\* gameMode or winLength.
C13_Configuration ==
    /\ Configured
    /\ [][/\ Reset \/ UNCHANGED <<boardSize, gameMode, winLength>>
          /\ Configured']_vars

C13_Witness ==
    /\ boardSize = 7
    /\ winLength = 4
    /\ gameMode = "ai"
    /\ MarkCount(gameBoard) >= 3

\* minimax without pruning: the same terminal scores, every empty cell tried
RECURSIVE minimaxUnpruned(_, _, _)
minimaxUnpruned(board, depth, isMaximizing) ==
    LET winner == checkWinnerForMinimax(board) IN
    IF winner = aiPlayer THEN 1000 - depth
    ELSE IF winner = opponent THEN depth - 1000
    ELSE IF isBoardFullForMinimax(board) THEN 0
    ELSE LET scores ==
                 {minimaxUnpruned(SetCell(board, c[1], c[2],
                                          IF isMaximizing THEN aiPlayer ELSE opponent),
                                  depth + 1, ~isMaximizing) :
                     c \in {e \in Cells : board[e[1]][e[2]] = ""}}
         IN IF isMaximizing
            THEN CHOOSE m \in scores : \A o \in scores : m >= o
            ELSE CHOOSE m \in scores : \A o \in scores : m <= o

\* the unpruned value of the computer's move on cell c
ChildValue(board, c) ==
    minimaxUnpruned(SetCell(board, c[1], c[2], aiPlayer), 0, FALSE)

\* the first empty cell, in row-major order, of the greatest unpruned value
UnprunedBestMove(board) ==
    LET values == {<<e, ChildValue(board, e)>> :
                      e \in {x \in Cells : board[x[1]][x[2]] = ""}}
        c == FirstCell({v[1] : v \in {b \in values :
                                         \A o \in values : b[2] >= o[2]}})
    IN [row |-> c[1], col |-> c[2]]

\* C14: on a 3x3 board at the computer's turn, findBestMove returns the cell
\* the unpruned minimax selects, and the pruned score of every candidate
\* cell is its unpruned value.
C14_PruningKeepsDecision ==
    (boardSize = 3 /\ gameMode = "ai" /\ gameActive /\ currentPlayer = aiPlayer
        /\ timers > 0)
    => /\ findBestMove(gameBoard).move = UnprunedBestMove(gameBoard)
       /\ \A c \in Cells :
             gameBoard[c[1]][c[2]] = ""
                => minimax(SetCell(gameBoard, c[1], c[2], aiPlayer), 0, FALSE,
                           0 - Infinity, Infinity, MaxDepthFor(boardSize)).score
                      = ChildValue(gameBoard, c)

C14_Witness ==
    /\ boardSize = 3 /\ gameMode = "ai" /\ gameActive
    /\ currentPlayer = aiPlayer /\ timers > 0
    /\ MarkCount(gameBoard) = 1

\* C16: on a board larger than 5x5, a computer move made while no empty cell
\* completes a run of 'O' and some empty cell completes a run of 'X' writes
\* 'O' into the first such cell and nowhere else, whoever's turn it is.
C16_Block ==
    [][(/\ TimerStep /\ boardSize > 5 /\ gameActive
        /\ CompletingCells(gameBoard, aiPlayer) = {}
        /\ CompletingCells(gameBoard, "X") # {})
        => /\ Written = {FirstCell(CompletingCells(gameBoard, "X"))}
           /\ \A c \in Written : gameBoard'[c[1]][c[2]] = aiPlayer]_vars

\* the cell findStrategicMove is to return: the center, else the first empty
\* corner among top-left, top-right, bottom-left, bottom-right
StrategicCells(board) ==
    LET center == <<boardSize \div 2, boardSize \div 2>>
        tl == <<0, 0>>
        tr == <<0, boardSize - 1>>
        bl == <<boardSize - 1, 0>>
        br == <<boardSize - 1, boardSize - 1>>
        Empty(c) == board[c[1]][c[2]] = ""
    IN IF Empty(center) THEN {center}
       ELSE IF Empty(tl) THEN {tl}
       ELSE IF Empty(tr) THEN {tr}
       ELSE IF Empty(bl) THEN {bl}
       ELSE IF Empty(br) THEN {br}
       ELSE {}

\* C17: on a board larger than 5x5, a computer move made while no empty cell
\* completes a run for either mark goes on the center if it is empty, else
\* on the first empty corner; with the center and the corners taken it goes
\* on some empty cell. It writes exactly one cell.
C17_Strategic ==
    [][(/\ TimerStep /\ boardSize > 5 /\ gameActive
        /\ CompletingCells(gameBoard, aiPlayer) = {}
        /\ CompletingCells(gameBoard, "X") = {})
        => /\ Cardinality(Written) = 1
           /\ \A c \in Written : gameBoard[c[1]][c[2]] = ""
           /\ StrategicCells(gameBoard) # {} => Written = StrategicCells(gameBoard)]_vars

C17_Witness ==
    /\ boardSize = 7
    /\ timers = 0
    /\ \A n \in 1 .. 4 : gameBoard[corners[n][1]][corners[n][2]] # ""
    /\ gameBoard[3][3] # ""
    /\ gameBoard[4][5] = "O"

\* C15: on a 3x3 or 4x4 board, a computer move made on the computer's turn
\* while some empty cell completes a run of 'O' goes on such a cell and wins.
C15_TakesImmediateWin ==
    [][(/\ TimerStep /\ boardSize \in {3, 4} /\ winLength = 3 /\ gameActive
        /\ currentPlayer = aiPlayer
        /\ CompletingCells(gameBoard, aiPlayer) # {})
        => /\ Cardinality(Written) = 1
           /\ Written \subseteq CompletingCells(gameBoard, aiPlayer)
           /\ \A c \in Written : gameBoard'[c[1]][c[2]] = aiPlayer
           /\ ~gameActive'
           /\ status' = Wins(aiPlayer)]_vars

C15_Witness ==
    /\ boardSize = 4
    /\ timers = 0
    /\ status = Wins("O")
    /\ MarkCount(gameBoard) = 8
    /\ \E j \in Idx : gameBoard[2][j] = "O"

\* C18: in human-vs-computer mode every computer move made while the game is
\* active places exactly one mark, and leaves the game ended or the turn
\* with the human 'X'.
C18_ComputerMoveFollows ==
    [][(TimerStep /\ gameMode = "ai" /\ gameActive)
        => /\ Cardinality(Written) = 1
           /\ (~gameActive' \/ currentPlayer' = "X")]_vars

\* the number of cells of board holding mark
CountOf(board, mark) ==
    Cardinality({c \in Cells : board[c[1]][c[2]] = mark})

\* C19: the board holds as many 'X' as 'O' or one 'X' more, and while the
\* game is active it is X's turn exactly when the counts are equal and O's
\* turn exactly when X has one more.
C19_MarksAlternate ==
    /\ CountOf(gameBoard, "X") - CountOf(gameBoard, "O") \in {0, 1}
    /\ gameActive
          => /\ currentPlayer = "X"
                   <=> CountOf(gameBoard, "X") = CountOf(gameBoard, "O")
             /\ currentPlayer = "O"
                   <=> CountOf(gameBoard, "X") = CountOf(gameBoard, "O") + 1

\* the timer's move made after a click took the computer's turn: the turn
\* is O's with no computer move pending
C19_Witness ==
    /\ gameMode = "ai" /\ gameActive /\ timers = 0
    /\ currentPlayer = "O"
    /\ CountOf(gameBoard, "X") = 2 /\ CountOf(gameBoard, "O") = 1

\* C20: the game is active exactly when the board holds no run of winLength
\* equal marks and at least one empty cell, and no board holds a run of 'X'
\* and a run of 'O'.
C20_ActiveAgreesWithBoard ==
    /\ gameActive <=> (/\ ~HasRun(gameBoard)
                        /\ MarkCount(gameBoard) < boardSize * boardSize)
    /\ ~(HasRunOf(gameBoard, "X") /\ HasRunOf(gameBoard, "O"))

\* a game ended by the computer's run with cells left empty
C20_Witness ==
    /\ ~gameActive
    /\ gameMode = "ai"
    /\ HasRunOf(gameBoard, "O")
    /\ MarkCount(gameBoard) < boardSize * boardSize

====
